---- MODULE Spec2Model ----
(***************************************************************************)
(* A model of pysteps' sparse-to-dense Lucas-Kanade motion estimator       *)
(* (pysteps/optflow/lucaskanade.py): dense_lucaskanade and the stages it   *)
(* calls (outlier filter, declustering, interpolate_sparse_vectors).       *)
(* import_netcdf_pysteps (pysteps/io/nowcast_importers.py) is modelled in  *)
(* the same module, with its own specification.                            *)
(*                                                                         *)
(* The OpenCV calls (goodFeaturesToTrack, calcOpticalFlowPyrLK) are the    *)
(* environment: what they return is chosen nondeterministically.  Sparse   *)
(* samples are tuples <<x, y, u, v>> of integers.  The input domains hold  *)
(* even coordinates and displacements of integer norm, so that every       *)
(* median and every speed the code computes is an integer and the          *)
(* arithmetic below is exact.  Percentiles are kept multiplied by 4.       *)
(***************************************************************************)
EXTENDS Integers, Sequences, FiniteSets, TLC

VARIABLES
    pc,      \* position in the running call
    R,       \* the input array: [ndim, nframes, rows, cols, finite]
    kwargs,  \* the keyword arguments of dense_lucaskanade (a dict)
    par,     \* the locals read from kwargs (lines 90-105)
    n,       \* loop index over frame pairs (line 124)
    p0,      \* corners of the current pair (line 144)
    trk,     \* <<x0, y0, u, v>> of the current pair (lines 148 and 158-161)
    stack,   \* x0Stack, y0Stack, uStack, vStack together (lines 120-123)
    smp,     \* x, y, u, v after declustering and concatenation
    itp,     \* the locals of interpolate_sparse_vectors
    out,     \* the value returned
    err,     \* the exception that ended the call, "none" if none
    log,     \* the stages executed so far, in order
    imp,     \* the locals of import_netcdf_pysteps (io/nowcast_importers.py)
    mem      \* the arrays: the caller's R and extra_vectors, the images prvs and
             \* next of the running call; and what the caller has seen so far

vars == <<pc, R, kwargs, par, n, p0, trk, stack, smp, itp, out, err, log, imp, mem>>

-----------------------------------------------------------------------------
(* Bounds of the model *)

MaxFrames == 3      \* R holds at most this many frames
MaxTracked == 3     \* points per pair when the outlier filter is checked alone
MaxSamples == 2     \* samples when declustering / interpolation are checked alone
MaxChunks == 3      \* nchunks ranges over 1..MaxChunks

(* Program constants: the defaults of lines 90-104 *)

DefaultMaxCorners == 500
DefaultQualityLevel == "0.1"
DefaultMinDistance == 5
DefaultBlockSize == 15
DefaultNrLevels == 2
DefaultSizeOpening == 3
DefaultMaxSpeed == 10
DefaultNrIQR == 3
DefaultDeclGrid == 20
DefaultMinNrSamples == 2
DefaultK == 20
DefaultNChunks == 5
DefaultWinsize == 50

-----------------------------------------------------------------------------
(* Generic helpers *)

Min2(a, b) == IF a <= b THEN a ELSE b
Max2(a, b) == IF a >= b THEN a ELSE b

RECURSIVE SeqsUpTo(_, _)
\* all sequences over S of length at most len
SeqsUpTo(S, len) ==
    IF len = 0 THEN {<<>>}
    ELSE LET shorter == SeqsUpTo(S, len - 1)
         IN shorter \cup {Append(s, e) : s \in {t \in shorter : Len(t) = len - 1}, e \in S}

\* the elements of s at the positions where keep is TRUE, in order (boolean
\* mask indexing, a[keep])
RECURSIVE Mask(_, _)
Mask(s, keep) ==
    IF s = <<>> THEN <<>>
    ELSE LET rest == Mask(Tail(s), Tail(keep))
         IN IF Head(keep) THEN <<Head(s)>> \o rest ELSE rest

Column(s, c) == [i \in 1..Len(s) |-> s[i][c]]

Sorted(s) == SortSeq(s, LAMBDA a, b : a < b)

\* sqrt(u**2 + v**2), exact on the displacement domain (integer norms)
Norm(u, v) == CHOOSE r \in 0..(u * u + v * v) : r * r = u * u + v * v

\* np.percentile(a, p), linear interpolation, times 4; p in {25, 50, 75}
Percentile4(a, p) ==
    LET s == Sorted(a)
        j == (Len(s) - 1) * (p \div 25)
        lo == j \div 4
        hi == Min2(lo + 1, Len(s) - 1)
    IN 4 * s[lo + 1] + (j % 4) * (s[hi + 1] - s[lo + 1])

\* np.median of a non-empty array (the mean of the two middle values when the
\* length is even; exact here because the domains hold even values)
Median(a) ==
    LET s == Sorted(a)
        len == Len(s)
    IN IF len % 2 = 1 THEN s[(len + 1) \div 2]
       ELSE (s[len \div 2] + s[len \div 2 + 1]) \div 2

\* dict.get(name, default)
KwGet(kw, name, default) == IF name \in DOMAIN kw THEN kw[name] ELSE default

\* ndarray.squeeze(): the shape without its axes of length 1
Squeeze(shape) == SelectSeq(shape, LAMBDA d : d # 1)

-----------------------------------------------------------------------------
(* The outlier filter, lines 151-161 *)

SpeedOf(p) == Norm(p[3], p[4])

OutlierThresholds4(speed, max_speed, nr_IQR_outlier) ==
    LET q1 == Percentile4(speed, 25)
        q2 == Percentile4(speed, 50)
        q3 == Percentile4(speed, 75)
    IN [max |-> Min2(4 * max_speed, q2 + nr_IQR_outlier * (q3 - q1)),
        min |-> Max2(0, q2 - 2 * (q3 - q1))]

KeepMaskLoose(speed, thr) ==
    [i \in 1..Len(speed) |-> 4 * speed[i] <= thr.max /\ 4 * speed[i] >= thr.min]

\* line 156
KeepMask(speed, thr) ==
    [i \in 1..Len(speed) |-> 4 * speed[i] < thr.max /\ 4 * speed[i] > thr.min]

\* np.percentile raises on an empty array; otherwise x0, y0, u, v are indexed
\* by the same mask
OutlierFilter(pts, max_speed, nr_IQR_outlier) ==
    IF pts = <<>> THEN [err |-> "IndexError", kept |-> <<>>]
    ELSE LET speed == [i \in 1..Len(pts) |-> SpeedOf(pts[i])]
             keep == KeepMask(speed, OutlierThresholds4(speed, max_speed, nr_IQR_outlier))
         IN [err |-> "none", kept |-> Mask(pts, keep)]

-----------------------------------------------------------------------------
(* declustering, lines 325-386 *)

\* lines 356-361
CellOf(p, decl_grid) == <<p[1] \div decl_grid, p[2] \div decl_grid>>

CellsOf(pts, decl_grid) == {CellOf(pts[i], decl_grid) : i \in 1..Len(pts)}

\* line 372
Members(pts, cell, decl_grid) ==
    SelectSeq(pts, LAMBDA p : CellOf(p, decl_grid) = cell)

\* the cell's first member instead of the medians
CellFirst(m) == m[1]

\* lines 375-378
CellMedian(m) ==
    <<Median(Column(m, 1)), Median(Column(m, 2)), Median(Column(m, 3)), Median(Column(m, 4))>>

\* line 366: np.unique(xy, axis=0) lists the distinct rows sorted, by the first
\* column and then by the second, whatever the order of the rows of xy; the
\* set holds that one order
CellOrders(cells) ==
    {o \in [1..Cardinality(cells) -> cells] :
        \A i, j \in 1..Cardinality(cells) :
            i < j => \/ o[i][1] < o[j][1]
                     \/ o[i][1] = o[j][1] /\ o[i][2] < o[j][2]}

\* lines 370-378, over the unique cells in the order uniq
RECURSIVE DeclusterLoop(_, _, _, _)
DeclusterLoop(pts, uniq, decl_grid, min_nr_samples) ==
    IF uniq = <<>> THEN <<>>
    ELSE LET m == Members(pts, Head(uniq), decl_grid)
             rest == DeclusterLoop(pts, Tail(uniq), decl_grid, min_nr_samples)
         IN IF Len(m) >= min_nr_samples THEN <<CellMedian(m)>> \o rest ELSE rest

\* the shape of xy after line 364
XyShape(pts) == Squeeze(<<Len(pts), 2>>)

\* the whole function; xy.shape[1] at line 365 needs a two-dimensional xy
Declustering(pts, decl_grid, min_nr_samples, uniq) ==
    IF Len(XyShape(pts)) < 2 THEN [err |-> "IndexError", smp |-> <<>>]
    ELSE [err |-> "none", smp |-> DeclusterLoop(pts, uniq, decl_grid, min_nr_samples)]

-----------------------------------------------------------------------------
(* interpolate_sparse_vectors, lines 388-519 *)

ErrUnknownKernel == "ValueError: unknown radial fucntion"

\* k is an int or the string "all"
KInt(i) == [tag |-> "int", n |-> i]
KAll == [tag |-> "all", n |-> 0]

\* epsilon: None, a given float, or the value line 489 derives: the median of
\* the pairwise distances, kept as the squares lo, hi of the two middle
\* distances (the median is (sqrt(lo) + sqrt(hi)) / 2), nan when there is no pair
EpsNone == [kind |-> "None", lo |-> 0, hi |-> 0]
EpsGiven(e) == [kind |-> "given", lo |-> e, hi |-> e]
EpsNan == [kind |-> "nan", lo |-> 0, hi |-> 0]

\* str.lower() on the kernel names of the model
Lower(s) ==
    CASE s = "Nearest" -> "nearest"
      [] s = "Inverse" -> "inverse"
      [] s = "GAUSSIAN" -> "gaussian"
      [] s = "Cubic" -> "cubic"
      [] OTHER -> s

\* One entry of U or V.  "zero" is the placeholder of lines 451-452; "pick" is
\* the component of sample nb[1] (lines 474-475); "wavg" is
\* sum(w * c[nb]) / sum(w) with w = fn(d / eps) (lines 493-500).  Equal entries
\* denote the same floating-point computation on the same operands.
Entry(fn, comp, nb, eps) == [fn |-> fn, comp |-> comp, nb |-> nb, eps |-> eps]
ZeroEntry(comp) == Entry("zero", comp, <<>>, EpsNone)

\* lines 446-449: grid row g (1-based) is the point (X, Y), X running fastest
GridPoint(g, domain_size) == <<(g - 1) % domain_size[2], (g - 1) \div domain_size[2]>>

Dist2(gp, p) == (p[1] - gp[1]) * (p[1] - gp[1]) + (p[2] - gp[2]) * (p[2] - gp[2])

\* the sample indexes by increasing distance from gp, as cKDTree.query lists
\* them.  With at most leafsize (16) samples the tree is one leaf, scanned in
\* index order with a strict comparison, so the lower index wins a tie.
NeighborOrder(gp, pts) ==
    SortSeq([i \in 1..Len(pts) |-> i],
            LAMBDA a, b : \/ Dist2(gp, pts[a]) < Dist2(gp, pts[b])
                          \/ /\ Dist2(gp, pts[a]) = Dist2(gp, pts[b])
                             /\ a < b)

\* scipy.spatial.distance.pdist, squared, pairs i < j in order
RECURSIVE PdistFrom(_, _, _)
PdistFrom(pts, i, j) ==
    IF i >= Len(pts) THEN <<>>
    ELSE IF j > Len(pts) THEN PdistFrom(pts, i + 1, i + 2)
    ELSE <<Dist2(pts[i], pts[j])>> \o PdistFrom(pts, i, j + 1)

Pdist2(pts) == PdistFrom(pts, 1, 2)

\* lines 488-489
MedianPdist(pts) ==
    LET s == Sorted(Pdist2(pts))
        len == Len(s)
    IN IF len = 0 THEN EpsNan
       ELSE IF len % 2 = 1 THEN [kind |-> "median", lo |-> s[(len + 1) \div 2], hi |-> s[(len + 1) \div 2]]
       ELSE [kind |-> "median", lo |-> s[len \div 2], hi |-> s[len \div 2 + 1]]

\* sections of equal length, the remainder of the division left out
ChunkLensEven(total, nchunks) == [i \in 1..nchunks |-> total \div nchunks]

\* np.array_split(grid, nchunks, 0): the lengths of the sections
ChunkLens(total, nchunks) ==
    [i \in 1..nchunks |-> IF i <= total % nchunks THEN total \div nchunks + 1
                                                  ELSE total \div nchunks]

\* lines 460-461
Subgrids(total, nchunks) == SelectSeq(ChunkLens(total, nchunks), LAMBDA len : len > 0)

\* the locals before line 455
InterpEntry(a, lb) ==
    LET total == a.domain_size[1] * a.domain_size[2]
    IN [args |-> a, lib |-> lb, k |-> a.k, tree |-> FALSE, subgrids |-> <<>>,
        ci |-> 1, i0 |-> 0,
        U |-> [g \in 1..total |-> ZeroEntry("u")],
        V |-> [g \in 1..total |-> ZeroEntry("v")],
        epsilon |-> a.epsilon, err |-> "none"]

\* line 455, `k is not "all"`: the callers of the model pass the literal, the
\* object the comparison is made with
IsNotAll(k) == k.tag # "all"

\* lines 455-464
InterpPrep(st) ==
    LET a == st.args
        total == a.domain_size[1] * a.domain_size[2]
    IN [st EXCEPT !.k = IF IsNotAll(a.k) THEN KInt(Min2(a.k.n, Len(a.smp))) ELSE a.k,
                  !.tree = IsNotAll(a.k),
                  !.subgrids = Subgrids(total, a.nchunks)]

Fail(st, e) == [st EXCEPT !.err = e]

\* lines 474-475 and 499-500: the slice i0:(i0+idelta) of U and V
WriteSlice(st, idelta, fn, nbOf, eps) ==
    [st EXCEPT
        !.U = [g \in DOMAIN st.U |->
                 IF g > st.i0 /\ g <= st.i0 + idelta
                 THEN Entry(fn, "u", nbOf[g], eps) ELSE st.U[g]],
        !.V = [g \in DOMAIN st.V |->
                 IF g > st.i0 /\ g <= st.i0 + idelta
                 THEN Entry(fn, "v", nbOf[g], eps) ELSE st.V[g]],
        !.epsilon = IF fn = "pick" THEN st.epsilon ELSE eps,
        !.i0 = st.i0 + idelta,
        !.ci = st.ci + 1]

\* the bandwidth taken from the distances d of the subgrid at hand (the median
\* of each point's distance to its nearest sample) instead of pdist(points)
EpsilonPerChunk(st) ==
    IF st.epsilon.kind # "None" THEN st.epsilon
    ELSE LET chunk == (st.i0 + 1)..(st.i0 + st.subgrids[st.ci])
             near == [j \in 1..st.subgrids[st.ci] |->
                        LET gp == GridPoint(st.i0 + j, st.args.domain_size)
                        IN Dist2(gp, st.args.smp[NeighborOrder(gp, st.args.smp)[1]])]
             m == Sorted(near)[(Len(near) + 1) \div 2]
         IN [kind |-> "median", lo |-> m, hi |-> m]

\* lines 487-489
EpsilonOf(st) ==
    IF st.epsilon.kind = "None" THEN MedianPdist(st.args.smp) ELSE st.epsilon

\* one pass of the loop body, lines 465-502, on subgrid ci
ChunkStep(st) ==
    LET a == st.args
        pts == a.smp
        idelta == st.subgrids[st.ci]
        fn == Lower(a.function)
        chunk == (st.i0 + 1)..(st.i0 + idelta)
        order == [g \in chunk |-> NeighborOrder(GridPoint(g, a.domain_size), pts)]
    IN IF fn = "nearest" THEN
          IF ~st.tree THEN Fail(st, "UnboundLocalError")       \* line 472, tree never assigned
          ELSE IF pts = <<>> THEN Fail(st, "IndexError")       \* line 474, no sample to index
          ELSE WriteSlice(st, idelta, "pick", [g \in chunk |-> SubSeq(order[g], 1, 1)], st.epsilon)
       ELSE
          IF st.tree /\ pts = <<>> /\ st.lib.emptyFails
          THEN Fail(st, "ValueError")                          \* line 484, query with k = 0
          ELSE IF fn \notin {"inverse", "gaussian"}
          THEN Fail(st, ErrUnknownKernel)                      \* line 497
          ELSE IF st.tree /\ st.k.n = 1
          THEN Fail(st, "AxisError")                           \* line 499, d and inds are 1-d
          ELSE WriteSlice(st, idelta, fn,
                          [g \in chunk |-> IF st.tree THEN SubSeq(order[g], 1, st.k.n)
                                           ELSE [i \in 1..Len(pts) |-> i]],
                          EpsilonOf(st))

\* lines 504-507 and 519
InterpResult(st) == [U |-> st.U, V |-> st.V, shape |-> <<2, st.args.domain_size[1], st.args.domain_size[2]>>]

RECURSIVE InterpLoop(_)
InterpLoop(st) ==
    IF st.err # "none" \/ st.ci > Len(st.subgrids) THEN st ELSE InterpLoop(ChunkStep(st))

\* the whole call
InterpRun(a, lb) == InterpLoop(InterpPrep(InterpEntry(a, lb)))

-----------------------------------------------------------------------------
(* dense_lucaskanade, lines 10-192 *)

ErrRDims == "ValueError: R has %i dimensions, but a three-dimensional array is expected"
ErrRFrames == "ValueError: R has %i frame, but at least two frames are expected"
ErrRFinite == "ValueError: All values in R must be finite"
ErrEvDims == "ValueError: extra_vectors has %i dimensions, but 2 dimensions are expected"
ErrEvCols == "ValueError: extra_vectors has %i columns, but 4 columns are expected"
ErrNoFeatures == "ValueError: Shi-Tomasi found no good feature to be tracked."

ValidationErrors == {ErrRDims, ErrRFrames, ErrRFinite, ErrEvDims, ErrEvCols}

\* extra_vectors: None or an array of the given shape; rows are its vectors
EvNone == [isNone |-> TRUE, ndim |-> 0, ncols |-> 0, rows |-> <<>>]
EvGood == [isNone |-> FALSE, ndim |-> 2, ncols |-> 4, rows |-> << <<10, 0, 2, 0>> >>]
EvBadDims == [isNone |-> FALSE, ndim |-> 1, ncols |-> 0, rows |-> <<>>]
EvBadCols == [isNone |-> FALSE, ndim |-> 2, ncols |-> 3, rows |-> <<>>]

\* lines 90-105
Locals(kw) ==
    [max_corners_ST |-> KwGet(kw, "max_corners_ST", DefaultMaxCorners),
     quality_level_ST |-> KwGet(kw, "quality_level_ST", DefaultQualityLevel),
     min_distance_ST |-> KwGet(kw, "min_distance_ST", DefaultMinDistance),
     block_size_ST |-> KwGet(kw, "block_size_ST", DefaultBlockSize),
     winsize_LK |-> KwGet(kw, "winsize_LK5", DefaultWinsize),
     nr_levels_LK |-> KwGet(kw, "nr_levels_LK", DefaultNrLevels),
     size_opening |-> KwGet(kw, "size_opening", DefaultSizeOpening),
     max_speed |-> KwGet(kw, "max_speed", DefaultMaxSpeed),
     nr_IQR_outlier |-> KwGet(kw, "nr_IQR_outlier", DefaultNrIQR),
     decl_grid |-> KwGet(kw, "decl_grid", DefaultDeclGrid),
     min_nr_samples |-> KwGet(kw, "min_nr_samples", DefaultMinNrSamples),
     function |-> KwGet(kw, "function", "inverse"),
     k |-> KwGet(kw, "k", KInt(DefaultK)),
     epsilon |-> KwGet(kw, "epsilon", EpsNone),
     nchunks |-> KwGet(kw, "nchunks", DefaultNChunks),
     extra_vectors |-> KwGet(kw, "extra_vectors", EvNone)]

ValidationErrorNoCols(r, ev) ==
    IF r.ndim # 3 THEN ErrRDims
    ELSE IF r.nframes < 2 THEN ErrRFrames
    ELSE IF ~r.finite THEN ErrRFinite
    ELSE IF ~ev.isNone /\ ev.ndim # 2 THEN ErrEvDims
    ELSE "none"

\* lines 82-87 and 106-112, in that order
ValidationError(r, ev) ==
    IF r.ndim # 3 THEN ErrRDims
    ELSE IF r.nframes < 2 THEN ErrRFrames
    ELSE IF ~r.finite THEN ErrRFinite
    ELSE IF ~ev.isNone /\ ev.ndim # 2 THEN ErrEvDims
    ELSE IF ~ev.isNone /\ ev.ncols # 4 THEN ErrEvCols
    ELSE "none"

\* lines 139-145 and 226-227: what clean_image and goodFeaturesToTrack are
\* called with
DetectParams(p) ==
    [n |-> p.size_opening, maxCorners |-> p.max_corners_ST,
     qualityLevel |-> p.quality_level_ST, minDistance |-> p.min_distance_ST,
     blockSize |-> p.block_size_ST]

\* lines 148-149 and 270-271: what calcOpticalFlowPyrLK is called with
TrackParams(p) == [winSize |-> p.winsize_LK, maxLevel |-> p.nr_levels_LK]

DetectErrorNever(corners) == "none"

\* lines 230-233: goodFeaturesToTrack returns None when it finds no corner
DetectError(corners) == IF corners = <<>> THEN ErrNoFeatures ELSE "none"

\* lines 274-288: the points with status 1, as <<x0, y0, u, v>>
LucasKanade_features_tracking(corners, res) ==
    Mask([i \in 1..Len(corners) |-> <<corners[i][1], corners[i][2], res[i].d[1], res[i].d[2]>>],
         [i \in 1..Len(corners) |-> res[i].st = 1])

DeclusterInputWithExtras(stk, ev) == stk \o ev.rows

\* lines 170-176: what declustering is called with
DeclusterInput(stk, ev) == stk

\* lines 179-183
AppendExtra(s, ev) == IF ev.isNone THEN s ELSE s \o ev.rows

Event(stage, pair, arg) == [stage |-> stage, pair |-> pair, arg |-> arg]

NoOut == [U |-> <<>>, V |-> <<>>, shape |-> <<>>]
NoArgs == [smp |-> <<>>, domain_size |-> <<0, 0>>, function |-> "", k |-> KInt(0),
           epsilon |-> EpsNone, nchunks |-> 0]
NoLib == [emptyFails |-> FALSE]
Idle == InterpEntry(NoArgs, NoLib)

-----------------------------------------------------------------------------
(* import_netcdf_pysteps, io/nowcast_importers.py lines 36-108 *)

ErrNoNetCDF4 == "Exception: netCDF4 not imported"
ErrNoVariable == "Exception: the netCDF file does not contain any supported variable name"

\* the names bound in the module's namespace once it is imported: the two
\* functions, the flag, and netCDF4 when its import succeeded (lines 36-42, 91)
ModuleGlobals(netcdf4_imported) ==
    {"netcdf4_imported", "import_netcdf_pysteps", "_convert_grid_mapping_to_proj4"}
        \cup (IF netcdf4_imported THEN {"netCDF4"} ELSE {})

\* lines 52-59: the variable read, in the order of the tests; "" when none
SupportedVariable(var_names) ==
    IF "precip_intensity" \in var_names THEN "precip_intensity"
    ELSE IF "hourly_precip_accum" \in var_names THEN "hourly_precip_accum"
    ELSE IF "reflectivity" \in var_names THEN "reflectivity"
    ELSE ""

\* line 61: R[...].squeeze().astype(float)
ReadArray(v) == [shape |-> Squeeze(v.shape), values |-> v.values]

\* np.nanmin of the values in s; it raises on an empty array
NanMin(s) == CHOOSE x \in {s[i] : i \in 1..Len(s)} : \A i \in 1..Len(s) : x <= s[i]

\* lines 91-108: the PROJ.4 definition as the list of its items, "None" for a
\* grid mapping that is not polar stereographic, "KeyError" when a mandatory
\* attribute is missing
ConvertGridMappingToProj4(gm) ==
    LET item(key, attr) == << <<key, gm[attr]>> >>
        opt(key, attr) == IF attr \in DOMAIN gm THEN item(key, attr) ELSE <<>>
    IN IF "grid_mapping_name" \notin DOMAIN gm THEN "KeyError"
       ELSE IF gm["grid_mapping_name"] # "polar_stereographic" THEN "None"
       ELSE IF {"straight_vertical_longitude_from_pole", "latitude_of_projection_origin",
                "false_easting", "false_northing"} \ DOMAIN gm # {} THEN "KeyError"
       ELSE << <<"+proj", "stere">> >>
                \o item("+lon_0", "straight_vertical_longitude_from_pole")
                \o item("+lat_0", "latitude_of_projection_origin")
                \o opt("+lat_ts", "standard_parallel")
                \o opt("+k_0", "scale_factor_at_projection_origin")
                \o item("+x_0", "false_easting")
                \o item("+y_0", "false_northing")

\* dict[key] = value
DictSet(dct, key, value) ==
    [x \in DOMAIN dct \cup {key} |-> IF x = key THEN value ELSE dct[x]]

NoArray == [shape |-> <<>>, values |-> <<>>]
NoFile == [variables |-> <<>>, attrs |-> <<>>]
NoReturn == [R |-> NoArray, metadata |-> <<>>]

\* the locals at the entry of a call on file f
ImportEntry(f, netcdf4_imported) ==
    [pc |-> "m_call", netcdf4_imported |-> netcdf4_imported, file |-> f, open |-> FALSE,
     R |-> NoArray, metadata |-> <<>>, ret |-> NoReturn, err |-> "none"]

NoImport == [ImportEntry(NoFile, FALSE) EXCEPT !.pc = "m_none"]

ImportFail(st, e) == [st EXCEPT !.pc = "m_error", !.err = e]

\* lines 45-48
ImportOpen(st) ==
    IF ~st.netcdf4_imported THEN ImportFail(st, ErrNoNetCDF4)
    ELSE [st EXCEPT !.pc = "m_select", !.open = TRUE]

\* lines 50-61
ImportSelect(st) ==
    LET vn == SupportedVariable(DOMAIN st.file.variables)
    IN IF vn = "" THEN ImportFail(st, ErrNoVariable)
       ELSE [st EXCEPT !.pc = "m_time", !.R = ReadArray(st.file.variables[vn])]

\* lines 63-67
ImportTime(st) ==
    IF "time" \notin DOMAIN st.file.variables THEN ImportFail(st, "KeyError")
    ELSE [st EXCEPT !.pc = "m_proj",
                    !.metadata = DictSet(<<>>, "timestamps", st.file.variables["time"].values)]

\* lines 69-78
ImportProjection(st) ==
    IF "polar_stereographic" \notin DOMAIN st.file.variables THEN [st EXCEPT !.pc = "m_fill"]
    ELSE LET proj_str == ConvertGridMappingToProj4(st.file.attrs)
         IN IF proj_str = "KeyError" THEN ImportFail(st, "KeyError")
            ELSE [st EXCEPT !.pc = "m_fill",
                            !.metadata = DictSet(st.metadata, "projection", proj_str)]

\* lines 80-89: np is looked up in the module's namespace at line 84
ImportFill(st) ==
    LET m1 == DictSet(st.metadata, "accutime", "None")
        m2 == DictSet(m1, "unit", "None")
        m3 == DictSet(m2, "transform", "None")
        above == SelectSeq(st.R.values, LAMBDA x : x > NanMin(st.R.values))
    IN IF "np" \notin ModuleGlobals(st.netcdf4_imported)
       THEN ImportFail([st EXCEPT !.metadata = m3], "NameError")
       ELSE IF st.R.values = <<>> \/ above = <<>>
       THEN ImportFail([st EXCEPT !.metadata = m3], "ValueError")
       ELSE LET m4 == DictSet(m3, "zerovalue", NanMin(st.R.values))
                m5 == DictSet(m4, "threshold", NanMin(above))
            IN [st EXCEPT !.pc = "m_done", !.open = FALSE, !.metadata = m5,
                          !.ret = [R |-> st.R, metadata |-> m5]]

\* The files of the model: any set of the five variable names the function
\* looks at; each supported variable has its own data
ImportData ==
    [precip_intensity |-> [shape |-> <<1, 2>>, values |-> <<0, 2>>],
     hourly_precip_accum |-> [shape |-> <<2>>, values |-> <<0, 4>>],
     reflectivity |-> [shape |-> <<2, 1>>, values |-> <<6, 6>>],
     time |-> [shape |-> <<1>>, values |-> <<0>>],
     polar_stereographic |-> [shape |-> <<>>, values |-> <<>>]]

PolarAttrs ==
    [grid_mapping_name |-> "polar_stereographic",
     straight_vertical_longitude_from_pole |-> 0,
     latitude_of_projection_origin |-> 90,
     standard_parallel |-> 60,
     scale_factor_at_projection_origin |-> 1,
     false_easting |-> 0,
     false_northing |-> 0]

Restrict(f, S) == [x \in S |-> f[x]]

GridMappings ==
    {PolarAttrs,
     Restrict(PolarAttrs, DOMAIN PolarAttrs \ {"standard_parallel", "scale_factor_at_projection_origin"}),
     Restrict(PolarAttrs, DOMAIN PolarAttrs \ {"false_easting"}),
     Restrict(PolarAttrs, DOMAIN PolarAttrs \ {"grid_mapping_name"}),
     [PolarAttrs EXCEPT !["grid_mapping_name"] = "lambert_conformal_conic"]}

ImportFiles ==
    {[variables |-> Restrict(ImportData, names), attrs |-> gm] :
        names \in SUBSET DOMAIN ImportData, gm \in GridMappings}

-----------------------------------------------------------------------------
(* Arrays and the calls that may write them *)

\* the content of frame i of R as the caller made it
RawFrame(i) == [frame |-> i, scaled |-> FALSE, opened |-> FALSE]

NoImage == [frame |-> 0, scaled |-> FALSE, opened |-> FALSE]

\* The arrays at the first call.  det and lk keep what goodFeaturesToTrack and
\* calcOpticalFlowPyrLK returned for the arguments they have been called with,
\* lib what cKDTree.query did on an empty tree; second tells the first call
\* from the one that follows it, and first is the outcome of the first.
InitMemory(r, kw) ==
    [R |-> [i \in 1..r.nframes |-> RawFrame(i)],
     ev |-> KwGet(kw, "extra_vectors", EvNone).rows,
     prvs |-> NoImage, next |-> NoImage,
     det |-> <<>>, lk |-> <<>>, lib |-> {},
     second |-> FALSE, first |-> [out |-> NoOut, err |-> "none"]]

\* clean_image (line 320, R[mask] = ...) applied to frame i of R itself
PrepareFrameInPlace(h, i, name) ==
    LET cleaned == [h.R[i] EXCEPT !.scaled = TRUE, !.opened = TRUE]
    IN [h EXCEPT !.R[i] = cleaned, ![name] = cleaned]

\* lines 127-140 for one image: frame i is copied, the copy rescaled and
\* converted into new arrays, and clean_image overwrites the last of them
PrepareFrame(h, i, name) ==
    LET copy == h.R[i]
        img == [copy EXCEPT !.scaled = TRUE]
    IN [h EXCEPT ![name] = [img EXCEPT !.opened = TRUE]]

\* a library function is a function of its arguments: what it returned for
\* key before, anything of options for arguments not seen yet
Recall(memo, key, options) == IF key \in DOMAIN memo THEN {memo[key]} ELSE options

-----------------------------------------------------------------------------
(* Input domains *)

PosA == <<0, 0>>
PosB == <<20, 0>>

\* what the detector may return for a pair
CornerLists == {<<>>, <<PosA>>, <<PosA, PosB>>}

\* what the tracker may return for a point: status and displacement
TrackOutcomes ==
    {[st |-> 0, d |-> <<0, 0>>]} \cup {[st |-> 1, d |-> d] : d \in {<<0, 0>>, <<2, 0>>, <<0, 4>>}}

RInputs == [ndim : {2, 3, 4}, nframes : 1..MaxFrames, rows : {1}, cols : {21}, finite : BOOLEAN]

\* the dict holding opts[nm] under nm for the names whose option is not empty
Kw(opts) ==
    [nm \in {x \in DOMAIN opts : opts[x] # {}} |-> CHOOSE v \in opts[nm] : TRUE]

\* a value other than the default for each documented optional parameter
Supplied ==
    [max_corners_ST |-> 100, quality_level_ST |-> "0.5", min_distance_ST |-> 7,
     block_size_ST |-> 9, winsize_LK |-> 10, nr_levels_LK |-> 3, max_speed |-> 4,
     nr_IQR_outlier |-> 1, size_opening |-> 5, decl_grid |-> 4, min_nr_samples |-> 1,
     function |-> "nearest", k |-> KAll, epsilon |-> EpsGiven(2), nchunks |-> 2]

\* the combinations of three of the parameters, all the documented parameters
\* together, and winsize_LK on its own
KwInputs ==
    {Kw(o) : o \in [function : {{}, {Supplied.function}},
                    k : {{}, {Supplied.k}},
                    extra_vectors : {{}, {EvGood}, {EvBadDims}, {EvBadCols}}]}
        \cup {Supplied, Restrict(Supplied, {"winsize_LK"})}

-----------------------------------------------------------------------------
(* One call of dense_lucaskanade *)

Init ==
    /\ pc = "call"
    /\ R \in RInputs
    /\ kwargs \in KwInputs
    /\ par = Locals(<<>>)
    /\ n = 0
    /\ p0 = <<>>
    /\ trk = <<>>
    /\ stack = <<>>
    /\ smp = <<>>
    /\ itp = Idle
    /\ out = NoOut
    /\ err = "none"
    /\ log = <<>>
    /\ imp = NoImport
    /\ mem = InitMemory(R, kwargs)

\* lines 82-123
Validate ==
    /\ pc = "call"
    /\ LET e == ValidationError(R, KwGet(kwargs, "extra_vectors", EvNone))
       IN IF e # "none"
          THEN pc' = "error" /\ err' = e /\ par' = par
          ELSE pc' = "loop" /\ err' = err /\ par' = Locals(kwargs)
    /\ n' = 0
    /\ stack' = <<>>
    /\ UNCHANGED <<R, kwargs, p0, trk, smp, itp, out, log, imp, mem>>

\* lines 124-145: rescale, clean and detect on pair n
Detect ==
    /\ pc = "loop"
    /\ n < R.nframes - 1
    /\ LET h == PrepareFrame(PrepareFrame(mem, n + 1, "prvs"), n + 2, "next")
       IN \E corners \in Recall(h.det, h.prvs, CornerLists) :
             /\ p0' = corners
             /\ mem' = [h EXCEPT !.det = DictSet(h.det, h.prvs, corners)]
             /\ IF DetectError(corners) # "none"
                THEN pc' = "error" /\ err' = DetectError(corners)
                ELSE pc' = "track" /\ err' = err
    /\ log' = Append(log, Event("detect", n, DetectParams(par)))
    /\ UNCHANGED <<R, kwargs, par, n, trk, stack, smp, itp, out, imp>>

\* lines 147-149
Track ==
    /\ pc = "track"
    /\ LET key == [prvs |-> mem.prvs, next |-> mem.next, p0 |-> p0]
       IN \E res \in Recall(mem.lk, key, [1..Len(p0) -> TrackOutcomes]) :
             /\ trk' = LucasKanade_features_tracking(p0, res)
             /\ mem' = [mem EXCEPT !.lk = DictSet(mem.lk, key, res)]
    /\ log' = Append(log, Event("track", n, TrackParams(par)))
    /\ pc' = "filter"
    /\ UNCHANGED <<R, kwargs, par, n, p0, stack, smp, itp, out, err, imp>>

\* lines 151-167; trk keeps the tracker's output, the vectors kept go on the
\* stack; the log keeps the vectors the filter was given
FilterStep ==
    /\ pc = "filter"
    /\ LET r == OutlierFilter(trk, par.max_speed, par.nr_IQR_outlier)
       IN IF r.err # "none"
          THEN pc' = "error" /\ err' = r.err /\ stack' = stack /\ n' = n
          ELSE pc' = "loop" /\ err' = err /\ stack' = stack \o r.kept /\ n' = n + 1
    /\ log' = Append(log, Event("filter", n, trk))
    /\ UNCHANGED <<R, kwargs, par, p0, trk, smp, itp, out, imp, mem>>

\* lines 169-176
Decluster ==
    /\ pc = "loop"
    /\ n = R.nframes - 1
    /\ LET pts == DeclusterInput(stack, par.extra_vectors)
       IN \E uniq \in CellOrders(CellsOf(pts, par.decl_grid)) :
             LET r == Declustering(pts, par.decl_grid, par.min_nr_samples, uniq)
             IN /\ smp' = r.smp
                /\ IF r.err # "none"
                   THEN pc' = "error" /\ err' = r.err
                   ELSE pc' = "concat" /\ err' = err
    /\ log' = Append(log, Event("decluster", n, 0))
    /\ UNCHANGED <<R, kwargs, par, n, p0, trk, stack, itp, out, imp, mem>>

\* lines 178-183
Concat ==
    /\ pc = "concat"
    /\ smp' = AppendExtra(smp, par.extra_vectors)
    /\ log' = IF par.extra_vectors.isNone THEN log ELSE Append(log, Event("concat", n, 0))
    /\ pc' = "interp"
    /\ UNCHANGED <<R, kwargs, par, n, p0, trk, stack, itp, out, err, imp, mem>>

InterpArgs ==
    [smp |-> smp, domain_size |-> <<R.rows, R.cols>>, function |-> par.function,
     k |-> par.k, epsilon |-> par.epsilon, nchunks |-> par.nchunks]

\* lines 185-192; cKDTree.query with k = 0 on an empty tree either raises or
\* returns empty neighbour lists, depending on the scipy installed
Interpolate ==
    /\ pc = "interp"
    /\ \E lb \in {l \in (IF mem.lib = {} THEN [emptyFails : BOOLEAN] ELSE mem.lib) :
                      l.emptyFails => smp = <<>>} :
          /\ itp' = InterpRun(InterpArgs, lb)
          /\ mem' = [mem EXCEPT !.lib = {lb}]
          /\ IF itp'.err # "none"
             THEN pc' = "error" /\ err' = itp'.err /\ out' = out
             ELSE pc' = "done" /\ err' = err /\ out' = InterpResult(itp')
    /\ log' = Append(log, Event("interpolate", n, 0))
    /\ UNCHANGED <<R, kwargs, par, n, p0, trk, stack, smp, imp>>

\* the caller calls dense_lucaskanade again with the same R and kwargs: the
\* locals of the new call are new, the caller's arrays are the same objects
CallAgain ==
    /\ pc \in {"done", "error"}
    /\ ~mem.second
    /\ mem' = [mem EXCEPT !.second = TRUE,
                          !.first = [out |-> out, err |-> err],
                          !.prvs = NoImage, !.next = NoImage]
    /\ pc' = "call"
    /\ par' = Locals(<<>>)
    /\ n' = 0
    /\ p0' = <<>>
    /\ trk' = <<>>
    /\ stack' = <<>>
    /\ smp' = <<>>
    /\ itp' = Idle
    /\ out' = NoOut
    /\ err' = "none"
    /\ log' = <<>>
    /\ UNCHANGED <<R, kwargs, imp>>

Next ==
    Validate \/ Detect \/ Track \/ FilterStep \/ Decluster \/ Concat \/ Interpolate \/ CallAgain

Spec == Init /\ [][Next]_vars

-----------------------------------------------------------------------------
(* The outlier filter alone: a call that has just tracked the points of its    *)
(* first pair                                                                   *)

FilterPoints == {<<0, 0, 0, 0>>, <<2, 0, 2, 0>>, <<4, 2, 0, 4>>, <<6, 0, 0, 12>>}

InitFilter ==
    /\ pc = "filter"
    /\ R = [ndim |-> 3, nframes |-> 2, rows |-> 1, cols |-> 21, finite |-> TRUE]
    /\ kwargs \in {Kw(o) : o \in [max_speed : {{}, {4}}, nr_IQR_outlier : {{}, {1}}]}
    /\ par = Locals(kwargs)
    /\ n = 0
    /\ trk \in SeqsUpTo(FilterPoints, MaxTracked)
    /\ p0 = [i \in 1..Len(trk) |-> <<trk[i][1], trk[i][2]>>]
    /\ stack = <<>>
    /\ smp = <<>>
    /\ itp = Idle
    /\ out = NoOut
    /\ err = "none"
    /\ log = <<Event("detect", 0, DetectParams(par)), Event("track", 0, TrackParams(par))>>
    /\ imp = NoImport
    /\ mem = InitMemory(R, kwargs)

SpecFilter == InitFilter /\ [][FilterStep]_vars

(* declustering alone: a call whose loop over its one pair has ended *)

DeclPoints == {<<0, 0, 2, 0>>, <<2, 2, 4, 2>>, <<4, 0, 0, 4>>}

InitDecl ==
    /\ pc = "loop"
    /\ R = [ndim |-> 3, nframes |-> 2, rows |-> 1, cols |-> 21, finite |-> TRUE]
    /\ kwargs \in {Kw(o) : o \in [decl_grid : {{}, {4}}, min_nr_samples : {{}, {1}}]}
    /\ par = Locals(kwargs)
    /\ n = 1
    /\ p0 = <<>>
    /\ trk = <<>>
    /\ stack \in SeqsUpTo(DeclPoints, MaxSamples + 1)
    /\ smp = <<>>
    /\ itp = Idle
    /\ out = NoOut
    /\ err = "none"
    /\ log = <<>>
    /\ imp = NoImport
    /\ mem = InitMemory(R, kwargs)

SpecDecl == InitDecl /\ [][Decluster]_vars

(* interpolate_sparse_vectors alone, on a non-empty sample set *)

InterpPoints == {<<0, 0, 2, 0>>, <<2, 0, 0, 4>>, <<0, 2, 4, 2>>}

InterpInputs ==
    [smp : SeqsUpTo(InterpPoints, MaxSamples) \ {<<>>},
     domain_size : {<<0, 2>>, <<1, 2>>, <<1, 3>>, <<2, 2>>},
     function : {"nearest", "Inverse", "gaussian", "cubic"},
     k : {KInt(1), KInt(2), KInt(DefaultK), KAll},
     epsilon : {EpsNone, EpsGiven(2)},
     nchunks : 1..MaxChunks]

InitInterp ==
    /\ pc = "i_call"
    /\ R = [ndim |-> 3, nframes |-> 2, rows |-> 1, cols |-> 21, finite |-> TRUE]
    /\ kwargs = <<>>
    /\ par = Locals(kwargs)
    /\ n = 0
    /\ p0 = <<>>
    /\ trk = <<>>
    /\ stack = <<>>
    /\ smp = <<>>
    /\ \E a \in InterpInputs : itp = InterpEntry(a, NoLib)
    /\ out = NoOut
    /\ err = "none"
    /\ log = <<>>
    /\ imp = NoImport
    /\ mem = InitMemory(R, kwargs)

\* lines 455-464
IPrep ==
    /\ pc = "i_call"
    /\ itp' = InterpPrep(itp)
    /\ pc' = "i_loop"
    /\ UNCHANGED <<R, kwargs, par, n, p0, trk, stack, smp, out, err, log, imp, mem>>

\* lines 465-502, one subgrid
IChunk ==
    /\ pc = "i_loop"
    /\ itp.ci <= Len(itp.subgrids)
    /\ itp' = ChunkStep(itp)
    /\ IF itp'.err # "none"
       THEN pc' = "error" /\ err' = itp'.err
       ELSE pc' = "i_loop" /\ err' = err
    /\ UNCHANGED <<R, kwargs, par, n, p0, trk, stack, smp, out, log, imp, mem>>

\* lines 504-519
IReturn ==
    /\ pc = "i_loop"
    /\ itp.ci > Len(itp.subgrids)
    /\ out' = InterpResult(itp)
    /\ pc' = "i_done"
    /\ UNCHANGED <<R, kwargs, par, n, p0, trk, stack, smp, itp, err, log, imp, mem>>

NextInterp == IPrep \/ IChunk \/ IReturn

SpecInterp == InitInterp /\ [][NextInterp]_vars

(* import_netcdf_pysteps alone *)

InitImport ==
    /\ pc = "m_call"
    /\ R = [ndim |-> 3, nframes |-> 2, rows |-> 1, cols |-> 21, finite |-> TRUE]
    /\ kwargs = <<>>
    /\ par = Locals(kwargs)
    /\ n = 0
    /\ p0 = <<>>
    /\ trk = <<>>
    /\ stack = <<>>
    /\ smp = <<>>
    /\ itp = Idle
    /\ out = NoOut
    /\ err = "none"
    /\ log = <<>>
    /\ \E f \in ImportFiles, b \in BOOLEAN : imp = ImportEntry(f, b)
    /\ mem = InitMemory(R, kwargs)

\* lines 45-48
MOpen ==
    /\ imp.pc = "m_call"
    /\ imp' = ImportOpen(imp)
    /\ pc' = imp'.pc
    /\ err' = imp'.err
    /\ UNCHANGED <<R, kwargs, par, n, p0, trk, stack, smp, itp, out, log, mem>>

\* lines 50-61
MSelect ==
    /\ imp.pc = "m_select"
    /\ imp' = ImportSelect(imp)
    /\ pc' = imp'.pc
    /\ err' = imp'.err
    /\ UNCHANGED <<R, kwargs, par, n, p0, trk, stack, smp, itp, out, log, mem>>

\* lines 63-67
MTime ==
    /\ imp.pc = "m_time"
    /\ imp' = ImportTime(imp)
    /\ pc' = imp'.pc
    /\ err' = imp'.err
    /\ UNCHANGED <<R, kwargs, par, n, p0, trk, stack, smp, itp, out, log, mem>>

\* lines 69-78
MProjection ==
    /\ imp.pc = "m_proj"
    /\ imp' = ImportProjection(imp)
    /\ pc' = imp'.pc
    /\ err' = imp'.err
    /\ UNCHANGED <<R, kwargs, par, n, p0, trk, stack, smp, itp, out, log, mem>>

\* lines 80-89
MFill ==
    /\ imp.pc = "m_fill"
    /\ imp' = ImportFill(imp)
    /\ pc' = imp'.pc
    /\ err' = imp'.err
    /\ UNCHANGED <<R, kwargs, par, n, p0, trk, stack, smp, itp, out, log, mem>>

NextImport == MOpen \/ MSelect \/ MTime \/ MProjection \/ MFill

SpecImport == InitImport /\ [][NextImport]_vars

-----------------------------------------------------------------------------
(* Properties *)

Ended == pc \in {"done", "error", "i_done"}

SuppliedExtra == KwGet(kwargs, "extra_vectors", EvNone)

InvalidInput ==
    \/ R.ndim # 3
    \/ R.nframes < 2
    \/ ~R.finite
    \/ ~SuppliedExtra.isNone /\ (SuppliedExtra.ndim # 2 \/ SuppliedExtra.ncols # 4)

LastStage == IF log = <<>> THEN "" ELSE log[Len(log)].stage

\* C1: a call of dense_lucaskanade on an invalid input (R not 3-dimensional,
\* fewer than 2 frames, a non-finite value, or extra_vectors that is not a
\* 2-dimensional array of 4 columns) ends with a validation error before any
\* stage has run: once it has left its entry it is in error, with no stage
\* logged and nothing returned.
C1_FailFast ==
    (InvalidInput /\ pc # "call") =>
        /\ pc = "error"
        /\ err \in ValidationErrors
        /\ log = <<>>
        /\ out = NoOut

\* C1's case: a three-frame, finite R with a 3-column extra_vectors was rejected
C1_Witness ==
    /\ pc = "error"
    /\ R.ndim = 3 /\ R.nframes = 3 /\ R.finite
    /\ SuppliedExtra = EvBadCols
    /\ err = ErrEvCols

C2_Speed == [i \in 1..Len(trk) |-> SpeedOf(trk[i])]

C2_Q(p) == Percentile4(C2_Speed, p)

\* min_thr < speed < max_thr, all times 4
C2_Within(i) ==
    /\ 4 * C2_Speed[i] < Min2(4 * par.max_speed,
                              C2_Q(50) + par.nr_IQR_outlier * (C2_Q(75) - C2_Q(25)))
    /\ 4 * C2_Speed[i] > Max2(0, C2_Q(50) - 2 * (C2_Q(75) - C2_Q(25)))

\* C2: after the outlier filter has run on a pair, the vectors it put on the
\* stack are exactly the tracked points i with min_thr < speed_i < max_thr
\* (strict), max_thr = min(max_speed, q2 + nr_IQR_outlier*(q3-q1)),
\* min_thr = max(0, q2 - 2*(q3-q1)), in their order and each with its own
\* x0, y0, u and v.
C2_OutlierFilter ==
    (pc = "loop" /\ LastStage = "filter") =>
        \E f \in [1..Len(stack) -> 1..Len(trk)] :
            /\ \A i, j \in 1..Len(stack) : i < j => f[i] < f[j]
            /\ \A j \in 1..Len(stack) : stack[j] = trk[f[j]]
            /\ {f[j] : j \in 1..Len(stack)} = {i \in 1..Len(trk) : C2_Within(i)}

\* C2's case: max_speed is the upper threshold, a point at exactly that speed
\* was dropped and another was kept
C2_Witness ==
    /\ pc = "loop" /\ LastStage = "filter"
    /\ stack # <<>>
    /\ \E i \in 1..Len(trk) : C2_Speed[i] = par.max_speed
    /\ 4 * par.max_speed <= C2_Q(50) + par.nr_IQR_outlier * (C2_Q(75) - C2_Q(25))

C3_Full(cell) == Len(Members(stack, cell, par.decl_grid)) >= par.min_nr_samples

\* C3: for every sample set given to declustering, sets of 0 or 1 samples
\* included, the call raises nothing and returns exactly one sample per grid
\* cell holding at least min_nr_samples samples, whose x, y, u, v are the
\* medians over the cell's members; the other cells give no sample.
C3_Declustering ==
    (LastStage = "decluster") =>
        /\ pc = "concat"
        /\ Len(smp) = Cardinality({c \in CellsOf(stack, par.decl_grid) : C3_Full(c)})
        /\ \A c \in CellsOf(stack, par.decl_grid) :
              C3_Full(c) <=>
                 \E j \in 1..Len(smp) : smp[j] = CellMedian(Members(stack, c, par.decl_grid))

C4_D(g, i) == Dist2(GridPoint(g, itp.args.domain_size), itp.args.smp[i])

\* the closest sample of grid point g, the lowest index among the closest
C4_Closest(g) ==
    CHOOSE i \in 1..Len(itp.args.smp) :
        \A j \in 1..Len(itp.args.smp) :
            C4_D(g, i) < C4_D(g, j) \/ (C4_D(g, i) = C4_D(g, j) /\ i <= j)

\* C4: a call of interpolate_sparse_vectors with function "nearest" on a
\* non-empty sample set returns, for every k (an integer >= 1 or "all"),
\* epsilon and nchunks, a field whose value at each grid point is the (u, v)
\* of the closest sample, the lowest index winning ties.
C4_Nearest ==
    (Ended /\ Lower(itp.args.function) = "nearest" /\ itp.args.smp # <<>>) =>
        /\ pc # "error"
        /\ \A g \in 1..(itp.args.domain_size[1] * itp.args.domain_size[2]) :
              /\ out.U[g] = Entry("pick", "u", <<C4_Closest(g)>>, itp.args.epsilon)
              /\ out.V[g] = Entry("pick", "v", <<C4_Closest(g)>>, itp.args.epsilon)

C5_K == IF itp.args.k.tag = "all" THEN Len(itp.args.smp) ELSE Min2(itp.args.k.n, Len(itp.args.smp))

C5_Eps == IF itp.args.epsilon.kind = "None" THEN MedianPdist(itp.args.smp) ELSE itp.args.epsilon

\* nb lists C5_K distinct samples, none farther from g than a sample left out
C5_Nearest(g, nb) ==
    /\ Len(nb) = C5_K
    /\ Cardinality({nb[i] : i \in 1..Len(nb)}) = C5_K
    /\ \A i \in {nb[x] : x \in 1..Len(nb)} :
          \A j \in (1..Len(itp.args.smp)) \ {nb[x] : x \in 1..Len(nb)} :
              C4_D(g, i) <= C4_D(g, j)

\* C5: a call of interpolate_sparse_vectors with function "inverse" or
\* "gaussian" on a non-empty sample set does not fail for any integer k >= 1
\* (k = 1 and k above the number of samples included) nor for k = "all", and
\* returns at each grid point the weighted average over the k nearest samples
\* (all of them for "all"), the weights being the kernel of distance/epsilon
\* with epsilon the supplied value or the median pairwise distance.
C5_Weighted ==
    (Ended /\ Lower(itp.args.function) \in {"inverse", "gaussian"} /\ itp.args.smp # <<>>) =>
        /\ pc # "error"
        /\ \A g \in 1..(itp.args.domain_size[1] * itp.args.domain_size[2]) :
              /\ out.U[g].fn = Lower(itp.args.function) /\ out.U[g].comp = "u"
              /\ out.V[g].fn = Lower(itp.args.function) /\ out.V[g].comp = "v"
              /\ out.U[g].eps = C5_Eps /\ out.V[g].eps = C5_Eps
              /\ out.U[g].nb = out.V[g].nb
              /\ C5_Nearest(g, out.U[g].nb)

C6_Other(c) == InterpRun([itp.args EXCEPT !.nchunks = c], itp.lib)

\* C6: the outcome of a call of interpolate_sparse_vectors (the U and V it
\* has written when it ends, and the error if it fails) is the outcome of the
\* same call with any other chunk count >= 1, counts above the number of grid
\* points included.
C6_ChunkInvariance ==
    Ended /\ itp # Idle =>
        \A c \in 1..(MaxChunks + 2) :
            /\ C6_Other(c).err = itp.err
            /\ C6_Other(c).U = itp.U
            /\ C6_Other(c).V = itp.V
            /\ pc # "error" => out = InterpResult(C6_Other(c))

\* C6's case: a 3-chunk run over 4 grid points with the bandwidth derived in
\* the loop has returned
C6_Witness ==
    /\ pc = "i_done"
    /\ itp.args.nchunks = 3
    /\ itp.args.domain_size = <<2, 2>>
    /\ itp.args.epsilon = EpsNone
    /\ Lower(itp.args.function) = "inverse"
    /\ Len(itp.args.smp) = 2
    /\ itp.ci = 4

\* C7: a call of interpolate_sparse_vectors with a kernel name other than
\* nearest, inverse, gaussian (in any letter case) ends with the
\* unknown-kernel error and returns nothing, for every k, epsilon, chunk
\* count and grid shape.
C7_UnknownKernel ==
    (Ended /\ itp # Idle /\ Lower(itp.args.function) \notin {"nearest", "inverse", "gaussian"}) =>
        /\ pc = "error"
        /\ err = ErrUnknownKernel
        /\ out = NoOut

Stages == [i \in 1..Len(log) |-> <<log[i].stage, log[i].pair>>]

RECURSIVE PairStages(_, _)
PairStages(i, pairs) ==
    IF i >= pairs THEN <<>>
    ELSE << <<"detect", i>>, <<"track", i>>, <<"filter", i>> >> \o PairStages(i + 1, pairs)

\* the stages of a complete call on t frames
CallStages(t, given) ==
    PairStages(0, t - 1) \o << <<"decluster", t - 1>> >>
        \o (IF given THEN << <<"concat", t - 1>> >> ELSE <<>>)
        \o << <<"interpolate", t - 1>> >>

IsPrefix(a, b) == Len(a) <= Len(b) /\ SubSeq(b, 1, Len(a)) = a

\* C8: the stages of a call on t frames run in the order detect, track,
\* filter for each pair 0..t-2, then declustering once on the accumulated
\* stack, then the concatenation of the extra vectors (if given), then the
\* interpolation once; a call that returns has run them all; and the samples
\* the interpolator is called with are the declustered stack followed by the
\* extra vectors, unchanged.
C8_StageOrder ==
    pc \notin {"call", "i_call", "i_loop", "i_done"} /\ ~InvalidInput =>
        /\ IsPrefix(Stages, CallStages(R.nframes, ~par.extra_vectors.isNone))
        /\ pc = "done" => Stages = CallStages(R.nframes, ~par.extra_vectors.isNone)
        /\ LastStage = "interpolate" =>
              \E uniq \in CellOrders(CellsOf(stack, par.decl_grid)) :
                  itp.args.smp =
                      Declustering(stack, par.decl_grid, par.min_nr_samples, uniq).smp
                          \o par.extra_vectors.rows

\* C8's case: a call on three frames with extra vectors has returned
C8_Witness ==
    /\ pc = "done"
    /\ R.nframes = 3
    /\ par.extra_vectors = EvGood
    /\ Len(stack) >= 2
    /\ Len(itp.args.smp) >= 2

FoundNoCorner == LastStage = "detect" /\ p0 = <<>>

\* C9: when the detector finds no corner in the first image of a pair, the
\* call has ended with the no-features error and returned nothing; the
\* detection of a pair is never run twice, and the no-features error is
\* always the last thing a call does.
C9_NoFeatures ==
    /\ FoundNoCorner => (pc = "error" /\ err = ErrNoFeatures /\ out = NoOut)
    /\ err = ErrNoFeatures => (pc = "error" /\ FoundNoCorner)
    /\ \A i, j \in 1..Len(log) :
          (i < j /\ log[i].stage = "detect" /\ log[j].stage = "detect") => log[i].pair < log[j].pair

\* C9's case: no corner in the second pair of a call whose first pair left
\* samples on the stack and that was given extra vectors
C9_Witness ==
    /\ FoundNoCorner
    /\ n = 1
    /\ stack # <<>>
    /\ par.extra_vectors = EvGood

\* C10: a call on a valid input in which the detector found a corner in
\* every pair it ran on raises no error, whatever the tracker lost, the
\* outlier filter excluded or declustering dropped.
C10_SoftThinning ==
    (~InvalidInput /\ ~FoundNoCorner /\ pc \notin {"i_call", "i_loop", "i_done"}) => pc # "error"

\* the vectors the outlier filter was given, pair by pair
C11_Tracked == [i \in {j \in 1..Len(log) : log[j].stage = "filter"} |-> log[i].arg]

\* every pair of the call has been tracked, and in every pair the tracker
\* returned at least one point and gave all of them the displacement d
C11_Uniform(d) ==
    /\ Cardinality(DOMAIN C11_Tracked) = R.nframes - 1
    /\ \A i \in DOMAIN C11_Tracked :
          /\ C11_Tracked[i] # <<>>
          /\ \A j \in 1..Len(C11_Tracked[i]) :
                <<C11_Tracked[i][j][3], C11_Tracked[i][j][4]>> = d

\* the entry e, computed from the samples s, is an average over at least one
\* sample, each with the value c for e's component
C11_Is(e, s, c) ==
    /\ e.fn \in {"pick", "inverse", "gaussian"}
    /\ e.nb # <<>>
    /\ \A i \in 1..Len(e.nb) : s[e.nb[i]][IF e.comp = "u" THEN 3 ELSE 4] = c

\* C11: a call of dense_lucaskanade with default parameters on a valid input,
\* in every pair of which the tracked points all have the same displacement
\* (u, v) of speed below max_speed ((0, 0) included), returns a dense field
\* whose value is (u, v) at every grid point.
C11_UniformRecovery ==
    \A d \in {o.d : o \in TrackOutcomes} :
        (/\ Ended
         /\ DOMAIN kwargs = {}
         /\ ~InvalidInput
         /\ Norm(d[1], d[2]) < DefaultMaxSpeed
         /\ C11_Uniform(d)) =>
            /\ pc = "done"
            /\ \A g \in 1..(R.rows * R.cols) :
                  /\ C11_Is(out.U[g], itp.args.smp, d[1])
                  /\ C11_Is(out.V[g], itp.args.smp, d[2])

\* the value the caller supplied under the documented name, else the default
C12_Value(name, default) == IF name \in DOMAIN kwargs THEN kwargs[name] ELSE default

C12_Events(stage) == {log[i] : i \in {j \in 1..Len(log) : log[j].stage = stage}}

\* C12: in a call of dense_lucaskanade that passed validation, each
\* documented optional parameter the stages work with is the value the caller
\* supplied under its documented name, and the documented default only when
\* the caller supplied none: the opening size and the four detector
\* parameters of every detection, the window and the pyramid levels of every
\* tracking (winsize_LK in particular), the thresholds of the outlier filter,
\* the cell size and the sample count of declustering, and the kernel, k,
\* epsilon and chunk count the interpolator is called with.
C12_ParametersUsed ==
    (pc \notin {"call", "i_call", "i_loop", "i_done"} /\ ~InvalidInput) =>
        /\ \A e \in C12_Events("detect") :
              /\ e.arg.n = C12_Value("size_opening", DefaultSizeOpening)
              /\ e.arg.maxCorners = C12_Value("max_corners_ST", DefaultMaxCorners)
              /\ e.arg.qualityLevel = C12_Value("quality_level_ST", DefaultQualityLevel)
              /\ e.arg.minDistance = C12_Value("min_distance_ST", DefaultMinDistance)
              /\ e.arg.blockSize = C12_Value("block_size_ST", DefaultBlockSize)
        /\ \A e \in C12_Events("track") :
              /\ e.arg.winSize = C12_Value("winsize_LK", DefaultWinsize)
              /\ e.arg.maxLevel = C12_Value("nr_levels_LK", DefaultNrLevels)
        /\ par.max_speed = C12_Value("max_speed", DefaultMaxSpeed)
        /\ par.nr_IQR_outlier = C12_Value("nr_IQR_outlier", DefaultNrIQR)
        /\ par.decl_grid = C12_Value("decl_grid", DefaultDeclGrid)
        /\ par.min_nr_samples = C12_Value("min_nr_samples", DefaultMinNrSamples)
        /\ LastStage = "interpolate" =>
              /\ itp.args.function = C12_Value("function", "inverse")
              /\ itp.args.k = C12_Value("k", KInt(DefaultK))
              /\ itp.args.epsilon = C12_Value("epsilon", EpsNone)
              /\ itp.args.nchunks = C12_Value("nchunks", DefaultNChunks)

C13_Supported == SupportedVariable(DOMAIN imp.file.variables) # ""

C13_Keys ==
    {"projection", "x1", "y1", "x2", "y2", "xpixelsize", "ypixelsize", "unit",
     "transform", "accutime", "threshold", "zerovalue"}

\* C13: a call of import_netcdf_pysteps that has ended, on a file holding at
\* least one of precip_intensity, hourly_precip_accum, reflectivity and with
\* netCDF4 imported, has returned the pair (array, metadata), the array being
\* the one read from the file and the metadata having the keys projection,
\* x1, y1, x2, y2, xpixelsize, ypixelsize, unit, transform, accutime,
\* threshold and zerovalue; a call that ended with an error had no supported
\* variable in its file or no netCDF4.
C13_Import ==
    imp.pc \in {"m_done", "m_error"} =>
        IF imp.netcdf4_imported /\ C13_Supported
        THEN /\ imp.pc = "m_done"
             /\ imp.ret.R = imp.R
             /\ C13_Keys \subseteq DOMAIN imp.ret.metadata
        ELSE /\ imp.pc = "m_error"
             /\ imp.err = IF imp.netcdf4_imported THEN ErrNoVariable ELSE ErrNoNetCDF4

C14_Total == itp.args.domain_size[1] * itp.args.domain_size[2]

\* the number of grid points in the first c chunks
RECURSIVE C14_Sum(_, _)
C14_Sum(s, c) == IF c = 0 THEN 0 ELSE C14_Sum(s, c - 1) + s[c]

C14_Zero(g) == itp.U[g] = ZeroEntry("u") /\ itp.V[g] = ZeroEntry("v")

\* index g holds a value interpolated for grid point g
C14_Assigned(g) ==
    /\ itp.U[g].fn \in {"pick", "inverse", "gaussian"} /\ itp.U[g].comp = "u"
    /\ itp.V[g].fn = itp.U[g].fn /\ itp.V[g].comp = "v"
    /\ itp.V[g].nb = itp.U[g].nb
    /\ itp.tree =>
          IsPrefix(itp.U[g].nb, NeighborOrder(GridPoint(g, itp.args.domain_size), itp.args.smp))

\* between the chunks: the chunks are non-empty and cover 1..m*n back to
\* back, i0 is the end of the chunks done, the indexes up to i0 are assigned
\* and the others still hold the placeholder; a call that returned has done
\* them all and returns the shape (2, m, n)
C14_Books ==
    pc \in {"i_loop", "i_done", "error"} =>
        /\ \A c \in 1..Len(itp.subgrids) : itp.subgrids[c] > 0
        /\ Len(itp.subgrids) <= itp.args.nchunks
        /\ C14_Sum(itp.subgrids, Len(itp.subgrids)) = C14_Total
        /\ Len(itp.U) = C14_Total /\ Len(itp.V) = C14_Total
        /\ itp.i0 = C14_Sum(itp.subgrids, itp.ci - 1)
        /\ \A g \in 1..C14_Total : IF g <= itp.i0 THEN C14_Assigned(g) ELSE C14_Zero(g)
        /\ pc = "i_done" =>
              /\ itp.i0 = C14_Total
              /\ out = [U |-> itp.U, V |-> itp.V,
                        shape |-> <<2, itp.args.domain_size[1], itp.args.domain_size[2]>>]

\* a chunk that did not fail: i0 advances by the chunk's length, the indexes
\* assigned before keep their values and the chunk's indexes, which held the
\* placeholder, are the ones assigned
C14_Chunk ==
    (pc = "i_loop" /\ pc' = "i_loop") =>
        /\ itp'.ci = itp.ci + 1
        /\ itp'.i0 = itp.i0 + itp.subgrids[itp.ci]
        /\ itp'.subgrids = itp.subgrids
        /\ \A g \in 1..C14_Total :
              (g <= itp.i0 \/ g > itp'.i0) => (itp'.U[g] = itp.U[g] /\ itp'.V[g] = itp.V[g])

\* C14: in interpolate_sparse_vectors, for every grid shape (m, n) and every
\* nchunks >= 1, the non-empty chunks are contiguous, disjoint and taken in
\* grid order, i0 advances by each chunk's length, every grid index is
\* assigned exactly once in U and in V, and a call that returns gives a field
\* of shape (2, m, n) with an interpolated value at every index and no
\* placeholder left.
C14_ChunkBookkeeping == [][C14_Books /\ C14_Books' /\ C14_Chunk]_vars

\* C14's case: a call split in 3 on a grid of 2 points has dropped the empty
\* chunk and returned
C14_Witness ==
    /\ pc = "i_done"
    /\ itp.args.nchunks = 3
    /\ itp.args.domain_size = <<1, 2>>
    /\ Len(itp.subgrids) = 2
    /\ itp.i0 = 2

\* the orders in which the samples of s can be stacked
C15_Perms(s) ==
    {[i \in 1..Len(s) |-> s[f[i]]] :
        f \in {h \in [1..Len(s) -> 1..Len(s)] : \A i, j \in 1..Len(s) : h[i] = h[j] => i = j}}

\* what declustering returns for the stack t
C15_Declustered(t) ==
    LET uniq == CHOOSE o \in CellOrders(CellsOf(t, par.decl_grid)) : TRUE
    IN Declustering(DeclusterInput(t, par.extra_vectors), par.decl_grid, par.min_nr_samples, uniq)

\* the dense field the call goes on to compute from the declustered samples s
C15_Field(s, lb) ==
    LET st == InterpRun([smp |-> AppendExtra(s, par.extra_vectors),
                         domain_size |-> <<R.rows, R.cols>>, function |-> par.function,
                         k |-> par.k, epsilon |-> par.epsilon, nchunks |-> par.nchunks], lb)
    IN [U |-> st.U, V |-> st.V, err |-> st.err]

C15_Set(s) == {s[i] : i \in 1..Len(s)}

\* C15: once declustering has run on the stack, it would have ended the same
\* way and returned the same set of representative samples for the stack in
\* any other order (the pairs' contributions or the samples within them
\* permuted), and the dense field the call computes from them is the same.
C15_OrderIndependence ==
    LastStage = "decluster" =>
        \A t \in C15_Perms(stack) :
            /\ C15_Declustered(t).err = err
            /\ C15_Set(C15_Declustered(t).smp) = C15_Set(smp)
            /\ err = "none" =>
                  \A lb \in [emptyFails : BOOLEAN] :
                      (lb.emptyFails => smp = <<>>) =>
                          C15_Field(C15_Declustered(t).smp, lb) = C15_Field(smp, lb)

\* C15's case: two different samples of one cell were stacked around a
\* sample of another cell, and each cell gave its representative
C15_Witness ==
    /\ LastStage = "decluster"
    /\ pc = "concat"
    /\ Len(stack) = 3
    /\ Len(smp) = 2
    /\ stack[1] # stack[3]
    /\ CellOf(stack[1], par.decl_grid) = CellOf(stack[3], par.decl_grid)
    /\ CellOf(stack[1], par.decl_grid) # CellOf(stack[2], par.decl_grid)

\* C16: in every state of a call of dense_lucaskanade and after it has ended,
\* by a return or by an error, the caller's R and extra_vectors hold what the
\* caller put in them; a call starts with none of the locals of the call
\* before; and a call that follows another on the same arguments ends with the
\* same outcome, the same field or the same error.
C16_FrameEffect ==
    /\ mem.R = [i \in 1..R.nframes |-> RawFrame(i)]
    /\ mem.ev = SuppliedExtra.rows
    /\ pc = "call" =>
          /\ par = Locals(<<>>) /\ n = 0 /\ p0 = <<>> /\ trk = <<>> /\ stack = <<>>
          /\ smp = <<>> /\ itp = Idle /\ out = NoOut /\ err = "none" /\ log = <<>>
          /\ mem.prvs = NoImage /\ mem.next = NoImage
    /\ (pc \in {"done", "error"} /\ mem.second) =>
          (out = mem.first.out /\ err = mem.first.err)

\* C16's case: a second call on three frames and extra vectors has returned,
\* after the images of its pairs were cleaned in place
C16_Witness ==
    /\ pc = "done"
    /\ mem.second
    /\ R.nframes = 3
    /\ SuppliedExtra = EvGood
    /\ mem.next = [frame |-> 3, scaled |-> TRUE, opened |-> TRUE]
    /\ out # NoOut

====
